---- MODULE Spec2Model ----
(***************************************************************************)
(* Model of app.py: the Crunchyroll -> AniList progress synchroniser.      *)
(*   make_request                          bounded retry on HTTP 429       *)
(*   get_crunchyroll_history               cached / fetched history feed   *)
(*   get_distinct_series_latest_completed  history reducer                 *)
(*   get_anilist_media_and_progress        batched title search            *)
(*   batch_update_anilist_progress         batched progress mutation       *)
(*   sync_crunchyroll_to_anilist_combined  the whole run                   *)
(***************************************************************************)
EXTENDS Integers, Sequences, FiniteSets, TLC

(* ------------------------------ bounds --------------------------------- *)
\* highest episode number in the feeds of the reducer specification
MaxEpisode == 3
\* longest feed of the reducer specification
MaxFeed == 3
\* highest episode number / stored progress in the run specification
MaxEp == 2
\* longest history feed in the run specification
MaxHist == 2
\* largest retries argument of a direct make_request call
MaxRetries == 3

(* --------------------------- program constants ------------------------- *)
\* make_request(..., retries=3, delay=300)
DefaultRetries == 3
DefaultDelay == 300
\* the status code make_request treats as the rate-limit signal
RateLimitStatus == 429

(* ------------------------------ values --------------------------------- *)
\* Python None where a string is expected (a missing or empty series_title)
None == "None"
\* Python None / JSON null where an integer is expected (episode_number, media
\* id, mediaListEntry)
NoInt == -1
Titles == {"A", "B"}
Ids == {1, 2}
\* the empty dict {}
EmptyMap == [x \in {} |-> 0]

SeqsUpTo(S, n) == UNION {[1..k -> S] : k \in 0..n}

\* A watch-history entry: panel.episode_metadata.series_title,
\* panel.episode_metadata.episode_number and fully_watched.  None stands for a
\* missing (or empty) series_title and for a missing episode_number.
Entry(t, e, w) == [series_title |-> t, episode_number |-> e, fully_watched |-> w]

WellFormedEntries(maxEp) ==
    {Entry(t, e, w) : t \in Titles, e \in 1..maxEp, w \in BOOLEAN}

\* an entry without a title and one without an episode number; both are flagged
\* as fully watched, which is the case where skipping them matters
MalformedEntries == {Entry(None, 1, TRUE), Entry("A", NoInt, TRUE)}

(* ---------------- get_distinct_series_latest_completed ----------------- *)
\* line 214: "if not title or episode is None: continue"
Skipped(entry) == entry.series_title = None \/ entry.episode_number = NoInt

\* keys of series_entries in insertion order (dicts keep insertion order)
RECURSIVE SeriesKeys(_)
SeriesKeys(h) ==
    IF h = <<>> THEN <<>>
    ELSE LET front == SubSeq(h, 1, Len(h) - 1)
             last == h[Len(h)]
             keys == SeriesKeys(front)
         IN IF Skipped(last) \/ \E i \in 1..Len(keys) : keys[i] = last.series_title
            THEN keys
            ELSE Append(keys, last.series_title)

\* series_entries[title]: the entries of the title, in feed order
SeriesEntries(h, title) ==
    SelectSeq(h, LAMBDA e : ~Skipped(e) /\ e.series_title = title)

\* insert e into a list sorted by episode_number descending, after every entry
\* whose key is >= (sorted(..., reverse=True) is stable)
RECURSIVE InsertDesc(_, _)
InsertDesc(e, s) ==
    IF s = <<>> THEN <<e>>
    ELSE IF s[1].episode_number >= e.episode_number
         THEN <<s[1]>> \o InsertDesc(e, Tail(s))
         ELSE <<e>> \o s

RECURSIVE SortedDesc(_)
SortedDesc(s) ==
    IF s = <<>> THEN <<>>
    ELSE InsertDesc(s[Len(s)], SortedDesc(SubSeq(s, 1, Len(s) - 1)))

\* the generator of lines 226-229 without its filter
IsCompletedAny(entry) == TRUE

\* the filter of the generator at lines 226-229
IsCompleted(entry) == entry.fully_watched

\* the default of next(..., None)
NoneEntry == Entry(None, NoInt, FALSE)

\* next((entry for entry in sorted_entries if fully_watched), None)
RECURSIVE FirstCompleted(_)
FirstCompleted(s) ==
    IF s = <<>> THEN NoneEntry
    ELSE IF IsCompleted(s[1]) THEN s[1] ELSE FirstCompleted(Tail(s))

\* lines 226-229 falling back to the highest entry when none is completed
LatestOrHighest(h, title) ==
    LET sorted_entries == SortedDesc(SeriesEntries(h, title))
    IN IF FirstCompleted(sorted_entries) # NoneEntry
       THEN FirstCompleted(sorted_entries)
       ELSE sorted_entries[1]

\* lines 220-229
LatestCompleted(h, title) == FirstCompleted(SortedDesc(SeriesEntries(h, title)))

RECURSIVE ReduceKeys(_, _)
ReduceKeys(h, keys) ==
    IF keys = <<>> THEN <<>>
    ELSE LET latest_completed == LatestCompleted(h, keys[1])
         IN IF latest_completed # NoneEntry
            THEN <<[series_title |-> keys[1],
                    episode_number |-> latest_completed.episode_number,
                    entry |-> latest_completed]>> \o ReduceKeys(h, Tail(keys))
            ELSE ReduceKeys(h, Tail(keys))

get_distinct_series_latest_completed(h) == ReduceKeys(h, SeriesKeys(h))

(* ------------------------------- state --------------------------------- *)
VARIABLES
    cache,             \* crunchyroll_history.json: NoFile or the cached "data" list
    catalog,           \* AniList search: title -> media id, NoInt when nothing matches
    remote,            \* AniList list: media id -> stored progress, NoInt without a list entry
    pc,                \* position of the running entry point
    entry,             \* the entry point: "sync", "batch", "request", "reduce"
    mr,                \* the activation of make_request
    history,           \* sync: history
    distinct_series,   \* sync: distinct_series
    anilist_data,      \* sync: anilist_data, a sequence indexed by alias number + 1
    resolved,          \* sync: the search answered with a "data" object
    anime_updates,     \* updates_to_apply / the argument of batch_update_anilist_progress
    outcome,           \* the closing log message of the entry point
    mutation_requests, \* requests the batch mutator has sent since the entry point began
    prevApplied,       \* the last run resolved its titles and its update set is on the target
    unchanged          \* this run follows such a run and reads the same history

vars == <<cache, catalog, remote, pc, entry, mr, history, distinct_series,
          anilist_data, resolved, anime_updates, outcome, mutation_requests,
          prevApplied, unchanged>>

\* what the steps inside make_request leave alone
callerVars == <<cache, catalog, pc, entry, history, distinct_series, anilist_data,
                resolved, anime_updates, outcome, prevApplied, unchanged>>

\* os.path.exists(CR_HISTORY_FILE) is false
NoFile == [exists |-> FALSE, data |-> <<>>]
\* the file holds a feed whose "data" list is h
CacheFile(h) == [exists |-> TRUE, data |-> h]

(* ---------------------------- make_request ----------------------------- *)
Methods == {"get", "POST", "put"}
\* method.lower()
Lower(m) == IF m = "POST" THEN "post" ELSE m

StatusCodes == {200, RateLimitStatus, 500}
\* what one scraper.get / scraper.post call ends with
Status(c) == [kind |-> "status", status_code |-> c]
RequestException == [kind |-> "RequestException", status_code |-> 0]
Answers == {Status(c) : c \in StatusCodes} \cup {RequestException}
\* make_request returned None
NoResponse == [kind |-> "None", status_code |-> 0]
\* make_request was left by the ValueError of line 45
ValueError == [kind |-> "ValueError", status_code |-> 0]

\* line 47
IsRateLimited(code) == code = RateLimitStatus
\* line 53: 200 <= response.status_code < 300
IsSuccess(code) == 200 <= code /\ code < 300

\* no activation of make_request
MrIdle ==
    [pc |-> "idle", caller |-> "none", method |-> "get", json_data |-> <<>>,
     retries |-> 0, delay |-> 0,
     attempt |-> 0, requests |-> 0, sleeps |-> 0, slept |-> 0, answers |-> <<>>,
     result |-> NoResponse]

\* entering make_request: "for attempt in range(1, retries + 1)"
MrCall(caller, method, json_data, retries, delay) ==
    [pc |-> "loop", caller |-> caller, method |-> method, json_data |-> json_data,
     retries |-> retries, delay |-> delay,
     attempt |-> 1, requests |-> 0, sleeps |-> 0, slept |-> 0,
     answers |-> <<>>, result |-> NoResponse]

\* the target applies the sub-operations S of the batched mutation
ApplyUpdates(r, m, S) == [id \in Ids |-> IF id \in S THEN m[id] ELSE r[id]]

\* what the target has stored after a request that ended with answer a: a
\* mutation that succeeded is applied whole, a rate-limited one not at all,
\* and one that failed may have been applied in part
RemoteAfter(a) ==
    IF mr.caller # "mutate" THEN {remote}
    ELSE IF a.kind = "status" /\ IsSuccess(a.status_code)
         THEN {ApplyUpdates(remote, mr.json_data, DOMAIN mr.json_data)}
    ELSE IF a.kind = "status" /\ IsRateLimited(a.status_code) THEN {remote}
    ELSE {ApplyUpdates(remote, mr.json_data, S) : S \in SUBSET DOMAIN mr.json_data}

\* one more request is on the wire
CountRequest ==
    mutation_requests' =
        IF mr.caller = "mutate" THEN mutation_requests + 1 ELSE mutation_requests

\* the loop as "for attempt in range(1, retries + 2)"
LoopOverLate(attempt, retries) == attempt > retries + 1

\* "for attempt in range(1, retries + 1)" has run out
LoopOver(attempt, retries) == attempt > retries

\* lines 39-43: the loop body is entered and the request is sent
MrSending ==
    /\ mr.pc = "loop"
    /\ ~LoopOver(mr.attempt, mr.retries)
    /\ Lower(mr.method) \in {"get", "post"}

\* lines 44-45: raise ValueError, which the except clause does not catch
MrUnsupported ==
    /\ mr.pc = "loop"
    /\ ~LoopOver(mr.attempt, mr.retries)
    /\ Lower(mr.method) \notin {"get", "post"}
    /\ mr' = [mr EXCEPT !.pc = "raised", !.result = ValueError]
    /\ UNCHANGED <<callerVars, remote, mutation_requests>>

\* lines 47-52 without the sleep
OnRateLimitedNoSleep(a) ==
    [mr EXCEPT !.requests = @ + 1, !.answers = Append(@, a), !.attempt = @ + 1]

\* lines 47-52: HTTP 429: sleep(delay), continue
OnRateLimited(a) ==
    [mr EXCEPT !.requests = @ + 1, !.answers = Append(@, a),
               !.sleeps = @ + 1, !.slept = @ + mr.delay, !.attempt = @ + 1]

MrRateLimited ==
    /\ MrSending
    /\ \E a \in Answers :
        /\ a.kind = "status" /\ IsRateLimited(a.status_code)
        /\ mr' = OnRateLimited(a)
        /\ remote' \in RemoteAfter(a)
    /\ CountRequest
    /\ UNCHANGED callerVars

\* lines 53-56 with "continue" for "return None"
OnHttpErrorRetry(a) ==
    [mr EXCEPT !.requests = @ + 1, !.answers = Append(@, a), !.attempt = @ + 1]

\* lines 53-56: any other status outside 200..299: return None
OnHttpError(a) ==
    [mr EXCEPT !.requests = @ + 1, !.answers = Append(@, a),
               !.pc = "returned", !.result = NoResponse]

MrHttpError ==
    /\ MrSending
    /\ \E a \in Answers :
        /\ a.kind = "status"
        /\ ~IsRateLimited(a.status_code) /\ ~IsSuccess(a.status_code)
        /\ mr' = OnHttpError(a)
        /\ remote' \in RemoteAfter(a)
    /\ CountRequest
    /\ UNCHANGED callerVars

\* line 58: return response
OnSuccess(a) ==
    [mr EXCEPT !.requests = @ + 1, !.answers = Append(@, a),
               !.pc = "returned", !.result = a]

MrSuccess ==
    /\ MrSending
    /\ \E a \in Answers :
        /\ a.kind = "status"
        /\ ~IsRateLimited(a.status_code) /\ IsSuccess(a.status_code)
        /\ mr' = OnSuccess(a)
        /\ remote' \in RemoteAfter(a)
    /\ CountRequest
    /\ UNCHANGED callerVars

\* lines 60-62: requests.exceptions.RequestException: return None
OnRequestException(a) ==
    [mr EXCEPT !.requests = @ + 1, !.answers = Append(@, a),
               !.pc = "returned", !.result = NoResponse]

MrTransportFailure ==
    /\ MrSending
    /\ \E a \in Answers :
        /\ a.kind = "RequestException"
        /\ mr' = OnRequestException(a)
        /\ remote' \in RemoteAfter(a)
    /\ CountRequest
    /\ UNCHANGED callerVars

\* lines 64-65: "Failed after multiple retries.", return None
MrExhausted ==
    /\ mr.pc = "loop"
    /\ LoopOver(mr.attempt, mr.retries)
    /\ mr' = [mr EXCEPT !.pc = "returned", !.result = NoResponse]
    /\ UNCHANGED <<callerVars, remote, mutation_requests>>

(* ------------------------ get_crunchyroll_history ---------------------- *)
\* the feeds the history service can answer with
Histories == SeqsUpTo(WellFormedEntries(MaxEp) \cup MalformedEntries, MaxHist)

(* -------------------- get_anilist_media_and_progress ------------------- *)
\* one aliased Media block of the answer; a null block is NullMedia
Media(id, listEntry) == [id |-> id, mediaListEntry |-> listEntry]
NullMedia == Media(NoInt, NoInt)

\* lines 107-124: the variables of the query, title<i> for series_list[i]
QueryTitles(series_list) ==
    [i \in 1..Len(series_list) |-> series_list[i].series_title]

\* the "data" object AniList answers with: block i answers the search for
\* the i-th title of the query
SearchData(titles) ==
    [i \in 1..Len(titles) |->
        LET id == catalog[titles[i]]
        IN IF id = NoInt THEN NullMedia ELSE Media(id, remote[id])]

\* lines 145-150: the "data" of the response, {} without a response or "data"
get_anilist_media_and_progress(response, hasData, titles) ==
    IF response # NoResponse /\ hasData THEN SearchData(titles) ELSE <<>>

(* ----------------- sync_crunchyroll_to_anilist_combined ---------------- *)
\* anilist_data.get(alias)
GetAlias(data, i) == IF i \in DOMAIN data THEN data[i] ELSE NullMedia

\* (media.get("mediaListEntry") or {}).get("progress", 0)
CurrentProgress(media) ==
    IF media.mediaListEntry = NoInt THEN 0 ELSE media.mediaListEntry

\* line 270 with >= for >
NeedsUpdateOrEqual(crunchyroll_episode, current_progress) ==
    crunchyroll_episode >= current_progress

\* line 270 with != for >
NeedsUpdateDiffers(crunchyroll_episode, current_progress) ==
    crunchyroll_episode # current_progress

\* line 270: crunchyroll_episode > current_progress
NeedsUpdate(crunchyroll_episode, current_progress) ==
    crunchyroll_episode > current_progress

\* line 271: updates_to_apply[anime_id] = crunchyroll_episode
SetItem(updates, anime_id, crunchyroll_episode) ==
    [k \in DOMAIN updates \cup {anime_id} |->
        IF k = anime_id THEN crunchyroll_episode ELSE updates[k]]

\* lines 262-283, from series number i on
RECURSIVE ReconcileFrom(_, _, _, _)
ReconcileFrom(i, series_list, data, updates) ==
    IF i > Len(series_list) THEN updates
    ELSE LET media == GetAlias(data, i)
             crunchyroll_episode == series_list[i].episode_number
         IN IF media # NullMedia /\ NeedsUpdate(crunchyroll_episode, CurrentProgress(media))
            THEN ReconcileFrom(i + 1, series_list, data,
                               SetItem(updates, media.id, crunchyroll_episode))
            ELSE ReconcileFrom(i + 1, series_list, data, updates)

Reconcile(series_list, data) == ReconcileFrom(1, series_list, data, EmptyMap)

(* -------------------- batch_update_anilist_progress -------------------- *)
NoUpdatesBatch == "No updates needed. All anime are already up to date."
NoUpdatesSync == "No updates needed; AniList progress is already current."
NoHistory == "No Crunchyroll history data found."

\* batch_update_anilist_progress without lines 158-160
NeverShortCircuit(updates) == FALSE

\* line 158: "if not anime_updates"
BatchShortCircuit(updates) == updates = EmptyMap

\* lines 158-196: the short circuit, or the one batched mutation request
BatchEnter(updates) ==
    IF BatchShortCircuit(updates)
    THEN /\ outcome' = NoUpdatesBatch
         /\ pc' = "done"
         /\ mr' = MrIdle
    ELSE /\ outcome' = "none"
         /\ pc' = "mutate"
         /\ mr' = MrCall("mutate", "post", updates, DefaultRetries, DefaultDelay)

\* lines 197-201
BatchReturn ==
    /\ pc = "mutate"
    /\ mr.pc = "returned"
    /\ pc' = "done"
    /\ mr' = MrIdle
    /\ outcome' = IF mr.result # NoResponse THEN "Successfully updated" ELSE "None"
    /\ prevApplied' = (entry = "sync" /\ resolved /\ mr.result # NoResponse)
    /\ UNCHANGED <<cache, catalog, remote, entry, history, distinct_series,
                   anilist_data, resolved, anime_updates, mutation_requests, unchanged>>

\* the mappings a direct caller hands to batch_update_anilist_progress
UpdateMaps == UNION {[S -> 1..MaxEp] : S \in SUBSET Ids}

\* batch_update_anilist_progress called on its own, in a fresh process
CallBatchUpdate ==
    /\ pc = "idle"
    /\ \E m \in UpdateMaps :
        /\ anime_updates' = m
        /\ BatchEnter(m)
    /\ entry' = "batch"
    /\ mutation_requests' = 0
    /\ UNCHANGED <<cache, catalog, remote, history, distinct_series, anilist_data,
                   resolved, prevApplied, unchanged>>

(* ------------------------------ the run -------------------------------- *)
\* lines 250-260: with the history h in hand, up to the search request
AfterHistory(h) ==
    /\ history' = h
    /\ IF h = <<>>
       THEN /\ outcome' = NoHistory
            /\ pc' = "done"
            /\ mr' = MrIdle
            /\ distinct_series' = <<>>
            /\ prevApplied' = FALSE
       ELSE /\ outcome' = "none"
            /\ pc' = "resolve"
            /\ distinct_series' = get_distinct_series_latest_completed(h)
            /\ mr' = MrCall("resolve", "post", QueryTitles(distinct_series'),
                            DefaultRetries, DefaultDelay)
            /\ UNCHANGED prevApplied

\* line 249 and lines 73-90: the cached feed, or the request for it
StartSync ==
    /\ pc \in {"idle", "done"}
    /\ entry' = "sync"
    /\ anilist_data' = <<>>
    /\ resolved' = FALSE
    /\ anime_updates' = EmptyMap
    /\ mutation_requests' = 0
    /\ IF cache.exists
       THEN /\ AfterHistory(cache.data)
            /\ unchanged' = (prevApplied /\ cache.data = history)
       ELSE /\ pc' = "fetch_history"
            /\ mr' = MrCall("history", "get", <<>>, DefaultRetries, DefaultDelay)
            /\ outcome' = "none"
            /\ history' = <<>>
            /\ distinct_series' = <<>>
            /\ unchanged' = FALSE
            /\ UNCHANGED prevApplied
    /\ UNCHANGED <<cache, catalog, remote>>

\* lines 91-98, then on as after a cached feed
HistoryReturn ==
    /\ pc = "fetch_history"
    /\ mr.pc = "returned"
    /\ IF mr.result # NoResponse
       THEN \E h \in Histories :
                /\ cache' = CacheFile(h)
                /\ AfterHistory(h)
       ELSE /\ cache' = cache
            /\ AfterHistory(<<>>)
    /\ UNCHANGED <<catalog, remote, entry, anilist_data, resolved, anime_updates,
                   mutation_requests, unchanged>>

\* lines 145-150 and 261-289: the answer of the search, the comparison loop
\* and the call of the batch mutator
ResolveReturn ==
    /\ pc = "resolve"
    /\ mr.pc = "returned"
    /\ \E hasData \in BOOLEAN :
        LET data == get_anilist_media_and_progress(mr.result, hasData, mr.json_data)
            updates_to_apply == Reconcile(distinct_series, data)
        IN /\ anilist_data' = data
           /\ resolved' = (mr.result # NoResponse /\ hasData)
           /\ anime_updates' = updates_to_apply
           /\ IF updates_to_apply # EmptyMap
              THEN /\ BatchEnter(updates_to_apply)
                   /\ UNCHANGED prevApplied
              ELSE /\ outcome' = NoUpdatesSync
                   /\ pc' = "done"
                   /\ mr' = MrIdle
                   /\ prevApplied' = resolved'
    /\ UNCHANGED <<cache, catalog, remote, entry, history, distinct_series,
                   mutation_requests, unchanged>>

\* the user deletes crunchyroll_history.json between two runs
RemoveCache ==
    /\ pc = "done"
    /\ cache.exists
    /\ cache' = NoFile
    /\ prevApplied' = FALSE
    /\ UNCHANGED <<catalog, remote, pc, entry, mr, history, distinct_series,
                   anilist_data, resolved, anime_updates, outcome, mutation_requests,
                   unchanged>>

\* the progress values the target can hold for one id
RemoteValues == {NoInt} \cup (0..MaxEp)

\* a fresh process: nothing has run
Fresh ==
    /\ pc = "idle"
    /\ entry = "none"
    /\ mr = MrIdle
    /\ history = <<>>
    /\ distinct_series = <<>>
    /\ anilist_data = <<>>
    /\ resolved = FALSE
    /\ anime_updates = EmptyMap
    /\ outcome = "none"
    /\ mutation_requests = 0
    /\ prevApplied = FALSE
    /\ unchanged = FALSE

Init ==
    /\ cache = NoFile
    /\ catalog \in [Titles -> Ids \cup {NoInt}]
    /\ remote \in [Ids -> RemoteValues]
    /\ Fresh

Next ==
    \/ StartSync
    \/ HistoryReturn
    \/ ResolveReturn
    \/ BatchReturn
    \/ CallBatchUpdate
    \/ RemoveCache
    \/ MrRateLimited
    \/ MrHttpError
    \/ MrSuccess
    \/ MrTransportFailure
    \/ MrExhausted

Spec == Init /\ [][Next]_vars

(* ---------------- make_request on its own: SpecExec -------------------- *)
Delays == {60, DefaultDelay}

\* make_request(method, url, retries=r, delay=d) called directly
CallMakeRequest ==
    /\ pc \in {"idle", "done"}
    /\ \E m \in Methods, r \in 0..MaxRetries, d \in Delays :
        mr' = MrCall("direct", m, <<>>, r, d)
    /\ pc' = "request"
    /\ entry' = "request"
    /\ outcome' = "none"
    /\ UNCHANGED <<cache, catalog, remote, history, distinct_series, anilist_data,
                   resolved, anime_updates, mutation_requests, prevApplied, unchanged>>

\* the direct caller has the result, or the ValueError
RequestReturn ==
    /\ pc = "request"
    /\ mr.pc \in {"returned", "raised"}
    /\ pc' = "done"
    /\ outcome' = mr.result.kind
    /\ mr' = MrIdle
    /\ UNCHANGED <<cache, catalog, remote, entry, history, distinct_series, anilist_data,
                   resolved, anime_updates, mutation_requests, prevApplied, unchanged>>

InitExec ==
    /\ cache = NoFile
    /\ catalog = [t \in Titles |-> NoInt]
    /\ remote = [id \in Ids |-> NoInt]
    /\ Fresh

NextExec ==
    \/ CallMakeRequest
    \/ RequestReturn
    \/ MrUnsupported
    \/ MrRateLimited
    \/ MrHttpError
    \/ MrSuccess
    \/ MrTransportFailure
    \/ MrExhausted

\* the code runs on and every request ends, with a status or an exception
SpecExec == InitExec /\ [][NextExec]_vars /\ WF_vars(NextExec)

(* ------------------- the reducer on its own: SpecReduce ---------------- *)
Feeds == SeqsUpTo(WellFormedEntries(MaxEpisode) \cup MalformedEntries, MaxFeed)

InitReduce ==
    /\ cache = NoFile
    /\ catalog = [t \in Titles |-> NoInt]
    /\ remote = [id \in Ids |-> NoInt]
    /\ pc = "reduce"
    /\ entry = "reduce"
    /\ mr = MrIdle
    /\ history \in Feeds
    /\ distinct_series = <<>>
    /\ anilist_data = <<>>
    /\ resolved = FALSE
    /\ anime_updates = EmptyMap
    /\ outcome = "none"
    /\ mutation_requests = 0
    /\ prevApplied = FALSE
    /\ unchanged = FALSE

\* distinct_series = get_distinct_series_latest_completed(history)
ReduceFeed ==
    /\ pc = "reduce"
    /\ distinct_series' = get_distinct_series_latest_completed(history)
    /\ pc' = "reduced"
    /\ UNCHANGED <<cache, catalog, remote, entry, mr, history, anilist_data, resolved,
                   anime_updates, outcome, mutation_requests, prevApplied, unchanged>>

NextReduce == ReduceFeed

SpecReduce == InitReduce /\ [][NextReduce]_vars

(* ============================== properties ============================= *)
Max(S) == CHOOSE m \in S : \A x \in S : x <= m

\* the progress the target holds for id, 0 without a list entry
RemoteProgress(id) == IF remote[id] = NoInt THEN 0 ELSE remote[id]

\* a run has compared its series with the answer of the search and has not
\* yet sent a mutation: the target still holds what the run read
Reconciled ==
    /\ entry = "sync"
    /\ resolved
    /\ pc \in {"mutate", "done"}
    /\ mutation_requests = 0

\* the records of distinct_series whose title resolves to id and whose episode
\* is ahead of the target
Ahead(id) ==
    {i \in 1..Len(distinct_series) :
        /\ catalog[distinct_series[i].series_title] = id
        /\ distinct_series[i].episode_number > RemoteProgress(id)}

\* the history entries that carry a title and an episode number
Counted(h, t) ==
    {i \in 1..Len(h) : h[i].series_title = t /\ h[i].episode_number # NoInt}

Watched(h, t) == {i \in Counted(h, t) : h[i].fully_watched}

Records(t) == {i \in 1..Len(distinct_series) : distinct_series[i].series_title = t}

\* C1: when two or more series records resolve to the same external_id and each
\* is ahead of the remote progress, the update mapping holds one entry for that
\* id, and its target progress is the maximum of their episodes, whatever the
\* order of the records.
C1_MergeByMaximum ==
    Reconciled =>
        \A id \in Ids :
            Cardinality(Ahead(id)) >= 2 =>
                /\ id \in DOMAIN anime_updates
                /\ anime_updates[id] =
                       Max({distinct_series[i].episode_number : i \in Ahead(id)})

\* C2: a run that follows a run whose titles were resolved and whose update set
\* was applied in full, and that reads the same history, computes an empty
\* update set and sends no mutation request.
C2_Idempotence ==
    (entry = "sync" /\ unchanged /\ resolved /\ pc \in {"mutate", "done"}) =>
        /\ anime_updates = EmptyMap
        /\ mutation_requests = 0

\* C3: after the comparison loop the update mapping has an entry for an
\* external_id if and only if some series resolving to that id has an episode
\* strictly greater than the remote progress (0 without a list entry), and the
\* entry carries the episode of such a series; a series that is equal or behind
\* contributes nothing.
C3_MonotonicForwardOnly ==
    Reconciled =>
        /\ DOMAIN anime_updates \subseteq Ids
        /\ \A id \in Ids :
            /\ id \in DOMAIN anime_updates <=> Ahead(id) # {}
            /\ id \in DOMAIN anime_updates =>
                   \E i \in Ahead(id) :
                       anime_updates[id] = distinct_series[i].episode_number

\* C3 witness: one series ahead of the target and updated, another one equal to
\* the remote progress and left out
C3_Witness ==
    /\ Reconciled
    /\ \E i, j \in 1..Len(distinct_series) :
        /\ catalog[distinct_series[i].series_title] \in DOMAIN anime_updates
        /\ catalog[distinct_series[j].series_title] \in Ids \ DOMAIN anime_updates
        /\ distinct_series[j].episode_number =
               remote[catalog[distinct_series[j].series_title]]

\* C4: for every title with at least one fully watched entry the reducer emits
\* exactly one record, and its episode is the highest episode among the fully
\* watched entries of the title, whatever the order of the feed.
C4_CompletionOnlySelection ==
    pc = "reduced" =>
        \A t \in Titles :
            Watched(history, t) # {} =>
                /\ Cardinality(Records(t)) = 1
                /\ \A i \in Records(t) :
                       distinct_series[i].episode_number =
                           Max({history[k].episode_number : k \in Watched(history, t)})

\* C4 witness: episode 3 not finished, episodes 2 and 1 finished, reduced to 2
C4_Witness ==
    /\ pc = "reduced"
    /\ history = <<Entry("A", 3, FALSE), Entry("A", 2, TRUE), Entry("A", 1, TRUE)>>
    /\ Len(distinct_series) = 1
    /\ distinct_series[1].episode_number = 2

\* the titles of the history that have entries, none of them fully watched
NeverCompleted(t) == Counted(history, t) # {} /\ Watched(history, t) = {}

\* C5: a series all of whose entries are not fully watched has no reduced
\* record, is not among the titles sent to the search, and no entry of the
\* update mapping comes from it; the other series of the feed are reduced.
C5_NoCompletedExclusion ==
    (entry = "sync" /\ pc \in {"resolve", "mutate", "done"} /\ history # <<>>) =>
        /\ \A t \in Titles :
            /\ NeverCompleted(t) => Records(t) = {}
            /\ (NeverCompleted(t) /\ mr.caller = "resolve") =>
                   \A i \in 1..Len(mr.json_data) : mr.json_data[i] # t
            /\ Watched(history, t) # {} => Records(t) # {}
        /\ \A id \in DOMAIN anime_updates :
            \E t \in Titles :
                /\ catalog[t] = id
                /\ \E k \in Watched(history, t) :
                       history[k].episode_number = anime_updates[id]

\* C5 witness: a title with only unfinished entries that the catalogue knows,
\* beside a title that is reduced and updated
C5_Witness ==
    /\ entry = "sync"
    /\ pc = "mutate"
    /\ \E t \in Titles : NeverCompleted(t) /\ catalog[t] # NoInt
    /\ anime_updates # EmptyMap

IsRateLimitAnswer(a) == a.kind = "status" /\ a.status_code = RateLimitStatus
IsSuccessAnswer(a) ==
    a.kind = "status" /\ a.status_code >= 200 /\ a.status_code <= 299
IsFailureAnswer(a) == ~IsRateLimitAnswer(a) /\ ~IsSuccessAnswer(a)

RateLimitedUpTo(n) == \A i \in 1..n : IsRateLimitAnswer(mr.answers[i])

\* C6: when attempts 1..k-1 are answered with HTTP 429 and attempt k with a
\* success status, k <= retries, make_request returns that response after
\* exactly k requests and k-1 sleeps of the fixed delay; and as long as every
\* answer was a 429 the call is still in its loop, about to send the next one.
C6_RateLimitRecovery ==
    LET k == Len(mr.answers)
    IN /\ (mr.pc = "returned" /\ k >= 1 /\ IsSuccessAnswer(mr.answers[k])
               /\ RateLimitedUpTo(k - 1)) =>
              /\ mr.result = mr.answers[k]
              /\ k <= mr.retries
              /\ mr.requests = k
              /\ mr.sleeps = k - 1
              /\ mr.slept = (k - 1) * mr.delay
       /\ (mr.pc # "idle" /\ RateLimitedUpTo(k) /\ k < mr.retries) =>
              (mr.pc = "loop" /\ mr.attempt = k + 1) \/ mr.pc = "raised"

\* C6 witness: 429, 429, success with retries = 3 and two sleeps
C6_Witness ==
    /\ mr.pc = "returned"
    /\ mr.retries = 3
    /\ Len(mr.answers) = 3
    /\ RateLimitedUpTo(2)
    /\ IsSuccessAnswer(mr.answers[3])
    /\ mr.result = mr.answers[3]
    /\ mr.sleeps = 2

\* C7: with an empty update mapping the batch mutator sends no request and ends
\* with its "no updates needed" message, and a run whose comparison leaves the
\* mapping empty ends with the run's "no updates needed" message without a
\* mutation request; a mutation request is only ever sent for a non-empty
\* mapping.
C7_EmptyUpdateShortCircuit ==
    /\ (entry = "batch" /\ anime_updates = EmptyMap) =>
           /\ pc = "done"
           /\ outcome = NoUpdatesBatch
           /\ mutation_requests = 0
           /\ mr.pc = "idle"
    /\ (entry = "sync" /\ pc = "done" /\ history # <<>> /\ anime_updates = EmptyMap) =>
           /\ outcome = NoUpdatesSync
           /\ mutation_requests = 0
           /\ mr.pc = "idle"
    /\ (mr.caller = "mutate" \/ mutation_requests > 0) => anime_updates # EmptyMap

\* C7 witness: the batch mutator was called with an empty mapping
C7_Witness ==
    /\ entry = "batch"
    /\ pc = "done"
    /\ anime_updates = EmptyMap
    /\ outcome = NoUpdatesBatch
    /\ mutation_requests = 0

\* C8: an attempt that ends with a status outside 200..299 other than 429, or
\* with a transport exception, is the last request of the call: make_request
\* has returned None, and has slept only for the rate-limit answers before it.
C8_NoRetryOnFailure ==
    \A i \in 1..Len(mr.answers) :
        IsFailureAnswer(mr.answers[i]) =>
            /\ i = Len(mr.answers)
            /\ mr.pc = "returned"
            /\ mr.result = NoResponse
            /\ mr.requests = i
            /\ mr.sleeps = i - 1
            /\ RateLimitedUpTo(i - 1)

\* C8 witness: a failure at the first attempt with three attempts allowed
C8_Witness ==
    /\ mr.pc = "returned"
    /\ mr.retries = 3
    /\ Len(mr.answers) = 1
    /\ IsFailureAnswer(mr.answers[1])
    /\ mr.result = NoResponse

\* C9, state part: never more than retries requests; a call whose answers were
\* all 429 returns only after exactly retries requests, and returns None
C9_Bounded ==
    /\ mr.requests <= mr.retries
    /\ mr.requests = Len(mr.answers)
    /\ (mr.pc = "returned" /\ RateLimitedUpTo(Len(mr.answers))) =>
           /\ mr.requests = mr.retries
           /\ mr.result = NoResponse

\* C9: every call of make_request ends, after at most retries requests; when
\* every attempt is answered with HTTP 429 it sends exactly retries requests and
\* returns None.
C9_BoundedRetry ==
    /\ []C9_Bounded
    /\ (mr.pc = "loop") ~> (mr.pc \in {"returned", "raised"})

\* C9 witness: three attempts, all answered with 429
C9_Witness ==
    /\ mr.pc = "returned"
    /\ mr.retries = 3
    /\ mr.requests = 3
    /\ RateLimitedUpTo(3)
    /\ mr.result = NoResponse

\* the values a run's mutation carries are ahead of what the run read
C10_RequestAhead ==
    (entry = "sync" /\ pc = "mutate" /\ mutation_requests = 0) =>
        \A id \in DOMAIN anime_updates : anime_updates[id] > RemoteProgress(id)

\* a step of a run leaves the progress of an id alone or writes the value of
\* the update mapping, which is greater than the stored one
C10_StepForward ==
    (entry = "sync" /\ entry' = "sync") =>
        \A id \in Ids :
            \/ remote'[id] = remote[id]
            \/ /\ id \in DOMAIN anime_updates
               /\ remote'[id] = anime_updates[id]
               /\ remote'[id] > RemoteProgress(id)

\* C10: every progress value a run writes for an external_id is strictly
\* greater than the progress the target held when the run read it, so the
\* stored progress never decreases over the runs, whatever the histories, the
\* resolutions and the failures of the requests.
C10_NeverBackwards == []C10_RequestAhead /\ [][C10_StepForward]_vars

\* C10 witness: a run whose mutation failed after the target had applied one
\* of its two sub-operations
C10_Witness ==
    /\ entry = "sync"
    /\ pc = "done"
    /\ outcome = "None"
    /\ \E a, b \in DOMAIN anime_updates :
        /\ remote[a] = anime_updates[a]
        /\ remote[b] # anime_updates[b]

====
